---- MODULE Spec2Model ----
(***************************************************************************)
(* Model of the model-management subtree (src/server/model_management):    *)
(* ModelManager.load_model, strategy selection, the three distribution     *)
(* strategies and InferenceEngine.generate_response with its pipelined     *)
(* decode loop.                                                            *)
(*                                                                         *)
(* A loaded network is a sequence of parameter-holding leaves numbered in  *)
(* traversal order; a module is the set of leaves below it; the placement  *)
(* of a model gives the device of every leaf.  Module.to(d) moves the      *)
(* leaves of the module in traversal order, so a relocation that raises    *)
(* has moved a proper prefix of them.                                      *)
(***************************************************************************)
EXTENDS Integers, Sequences, FiniteSets, TLC

(* ---------------- bounds ---------------- *)
MaxLayers == 2          \* decoder blocks of a decoder-style network
MaxChildren == 3        \* top-level children of a plain network
max_length == 3         \* stands for max_length = 1024 of inference.py
NumCallers == 2         \* request threads

(* ---------------- program constants ---------------- *)
SizeThresholdGB == 8
MiPerGi == 1024
eos_token_id == 0

None == "None"
\* None where the other values are identities of objects / sequences of tokens
NoObject == 0
NoIds == << -1 >>
\* pipeline_stages = None
NoStages ==
  [ embeddings |-> {}, pos_embeddings |-> {}, early_layers |-> << >>,
    late_layers |-> << >>, output_head |-> {} ]

\* Python's True and False where None is a third value
True == "True"
False == "False"

Callers == 1..NumCallers
\* identities of the model objects alive at one time: the manager's, its
\* engine's and the one of the engine of every call in flight
ModelObjects == 1..(NumCallers + 2)
Tokens == {eos_token_id, 1}

(* ---------------- devices (device_detection.py) ---------------- *)
\* the (main_device, secondary_device) pairs detect_devices can return
DevicePairs ==
  { <<"npu", "cuda">>, <<"npu", "cpu">>, <<"hip", "cuda">>, <<"hip", "cpu">>,
    <<"cuda", "cpu">>, <<"mps", "cpu">>, <<"cpu", "cpu">> }

Devices == {"cuda", "npu", "hip", "mps", "cpu"}
\* every kind other than the general-purpose processor is an accelerator
IsAccelerator(d) == d \in {"cuda", "npu", "hip", "mps"}

\* main_weight in percent; 85 is the value of detect_devices and load_config
MainWeights == {50, 85}

\* the estimates the networks on disk come to, in GB: the threshold of the
\* selection, the sizes next to it and the 12 GB of the end-to-end scenario
EstimatesGB == {8, 12}

\* math.ceil(n * w) for w = pct / 100
Ceil(n, pct) == (n * pct + 99) \div 100

Min(a, b) == IF a < b THEN a ELSE b

(* ---------------- names of sub-modules ---------------- *)
\* names are sequences of characters so that the substring test and lower()
\* of layer_offloading.py are computed, not assumed
nTransformer == <<"t","r","a","n","s","f","o","r","m","e","r">>
nWte == nTransformer \o <<".","w","t","e">>
nWpe == nTransformer \o <<".","w","p","e">>
nH == nTransformer \o <<".","h">>
nLnF == nTransformer \o <<".","l","n","_","f">>
nLmHead == <<"l","m","_","h","e","a","d">>
nWordEmb == nTransformer \o <<".","w","o","r","d","_","e","m","b">>
Digit(i) == <<"0","1","2","3","4","5","6","7","8","9">>[i + 1]
nBlock(i) == nH \o <<".", Digit(i - 1)>>
nAttn(i) == nBlock(i) \o <<".","a","t","t","n">>
nSelfAttention(i) == nBlock(i) \o <<".","S","e","l","f","A","t","t">>
nMlp(i) == nBlock(i) \o <<".","m","l","p">>
nFc(i) == <<"f","c", Digit(i)>>
nEncoder(i) == <<"A","t","t","e","n","t","i","o","n", Digit(i)>>

LowerChar(c) ==
  CASE c = "A" -> "a" [] c = "S" -> "s" [] c = "E" -> "e" [] c = "F" -> "f"
    [] OTHER -> c
\* str.lower()
Lower(s) == [i \in 1..Len(s) |-> LowerChar(s[i])]

\* the Python test `part in name`
Contains(name, part) ==
  \E k \in 0..(Len(name) - Len(part)) :
     \A j \in 1..Len(part) : name[k + j] = part[j]

AttentionParts ==
  { <<"a","t","t","n">>, <<"a","t","t","e","n","t","i","o","n">>, <<"s","e","l","f">> }

\* line 31 without .lower()
MatchesAttention_case_sensitive(name) ==
  \E p \in AttentionParts : Contains(name, p)

\* layer_offloading.py line 31
MatchesAttention(name) == \E p \in AttentionParts : Contains(Lower(name), p)

(* ---------------- network architectures ---------------- *)
\* "gpt2":  model.transformer with wte, wpe, h (n blocks), ln_f; model.lm_head
\* "bloom": model.transformer with word embeddings, h, ln_f but no wte/wpe
\*          (the default MODEL_PATH medicalai/ClinicalGPT-base-zh)
\* "plain": n top-level children, no transformer attribute, no
\*          get_input_embeddings / get_output_embeddings;
\*          attn says whether the first child carries an attention-like name
Architectures ==
  [kind : {"gpt2"}, n : 0..MaxLayers, attn : {TRUE}]
    \cup [kind : {"bloom"}, n : {1}, attn : {TRUE}]
    \cup { x \in [kind : {"plain"}, n : 0..MaxChildren, attn : BOOLEAN] :
             x.attn => x.n \in {1, MaxChildren} }

IsDecoderKind(a) == a.kind \in {"gpt2", "bloom"}

\* leaves in traversal order:
\*   decoder kinds: 1 = token embedding, 2 = position embedding,
\*                  2i+1 / 2i+2 = attention / mlp of block i,
\*                  2n+3 = ln_f, 2n+4 = lm_head
\*   plain:         leaf i = child i
NumLeaves(a) == IF IsDecoderKind(a) THEN 2 * a.n + 4 ELSE a.n
Leaves(a) == 1..NumLeaves(a)
LeafWte == {1}
LeafWpe == {2}
BlockLeaves(i) == {2 * i + 1, 2 * i + 2}
LeafLnF(a) == {2 * a.n + 3}
LeafLmHead(a) == {2 * a.n + 4}
\* the leaves of the blocks lo..hi of model.transformer.h
BlocksLeaves(lo, hi) == UNION { BlockLeaves(i) : i \in lo..hi }
TransformerLeaves(a) == 1..(2 * a.n + 3)

\* list(model.children()): each child as its set of leaves
Children(a) ==
  IF IsDecoderKind(a) THEN << TransformerLeaves(a), LeafLmHead(a) >>
  ELSE [i \in 1..a.n |-> {i}]

\* hasattr(model, 'transformer')
HasTransformer(a) == IsDecoderKind(a)
\* model.transformer has wte and wpe
HasWteWpe(a) == a.kind = "gpt2"
\* hasattr(model, 'get_input_embeddings') (transformers models only)
HasInputEmbeddings(a) == IsDecoderKind(a)
HasOutputEmbeddings(a) == IsDecoderKind(a)

\* the sub-modules of one decoder block, in named_modules() order
BlockModules(a, i) ==
  << [name |-> nBlock(i), leaves |-> BlockLeaves(i)],
     [name |-> IF a.kind = "gpt2" THEN nAttn(i) ELSE nSelfAttention(i),
      leaves |-> {2 * i + 1}],
     [name |-> nMlp(i), leaves |-> {2 * i + 2}] >>

RECURSIVE AllBlockModules(_, _)
AllBlockModules(a, i) ==
  IF i > a.n THEN << >> ELSE BlockModules(a, i) \o AllBlockModules(a, i + 1)

\* model.named_modules() without the root (its name is empty and matches
\* nothing): name and leaves of every sub-module, parents before children
NamedModules(a) ==
  IF IsDecoderKind(a) THEN
    << [name |-> nTransformer, leaves |-> TransformerLeaves(a)],
       [name |-> IF a.kind = "gpt2" THEN nWte ELSE nWordEmb, leaves |-> LeafWte],
       [name |-> nWpe, leaves |-> LeafWpe],
       [name |-> nH, leaves |-> BlocksLeaves(1, a.n)] >>
    \o AllBlockModules(a, 1)
    \o << [name |-> nLnF, leaves |-> LeafLnF(a)],
          [name |-> nLmHead, leaves |-> LeafLmHead(a)] >>
  ELSE
    [i \in 1..a.n |->
       [name |-> IF i = 1 /\ a.attn THEN nEncoder(i) ELSE nFc(i), leaves |-> {i}]]

(* ---------------- relocation ---------------- *)
\* the k first leaves of a module, in traversal order
RECURSIVE FirstLeaves(_, _)
FirstLeaves(S, k) ==
  IF k = 0 \/ S = {} THEN {}
  ELSE LET m == CHOOSE x \in S : \A y \in S : x <= y
       IN {m} \cup FirstLeaves(S \ {m}, k - 1)

\* placement after module.to(d) has moved the k first leaves of the module
MoveLeaves(pl, S, d, k) ==
  [l \in DOMAIN pl |-> IF l \in FirstLeaves(S, k) THEN d ELSE pl[l]]

\* module.to(d) that returns
MoveTo(pl, S, d) == MoveLeaves(pl, S, d, Cardinality(S))

\* the numbers of leaves a raising module.to(d) may have moved: it raises at
\* the first parameter or at the last one
FailPrefixes(S) == IF S = {} THEN {0} ELSE {0, Cardinality(S) - 1}

AllOn(pl, S, d) == \A l \in S : pl[l] = d

(* ---------------- size estimate and strategy selection ---------------- *)
\* model_loader.py line 51
BytesPerParam(cfg) == IF cfg.main_device = "cuda" THEN 2 ELSE 4

\* ModelLoader.estimate_model_size_gb, in MiB / 2^20 = in 1/1024 GB:
\* (param_count * bytes_per_param) / 1024**3 with param_count in 2^20 units
estimate_model_size_gb(cfg, param_count) == param_count * BytesPerParam(cfg)

\* the parameter counts, in units of 2^20 parameters, that give EstimatesGB
ParamCounts(cfg) ==
  { (gb * MiPerGi) \div BytesPerParam(cfg) : gb \in EstimatesGB }

\* model_size_gb > 8 on the scaled estimate
LargerThan8GB(size) == size > SizeThresholdGB * MiPerGi

StrategyNames == {"model_parallelism", "pipeline_parallelism", "layer_offloading"}

\* the if / elif / else of ModelManager._apply_distribution_strategy
SelectStrategy(cfg, size) ==
  IF cfg.main_device = "cuda" /\ LargerThan8GB(size) THEN "model_parallelism"
  ELSE IF cfg.main_device = "cuda" /\ cfg.secondary_device = "cpu"
       THEN "layer_offloading"
       ELSE "pipeline_parallelism"

\* get_strategy with one key of its dictionary misspelt
get_strategy_misspelt(name) ==
  IF name \in {"model_parallelism", "pipeline_parallelism", "layer_offload"}
  THEN name ELSE "ValueError"

\* distribution_strategies.get_strategy: the factory knows the name
get_strategy(name) == IF name \in StrategyNames THEN name ELSE "ValueError"

(* ---------------- tokens ---------------- *)
\* a prompt is known by its number of tokens, each the token 2;
\* the tokenizer truncates to max_length (inference.py line 25)
PromptLengths == {0, 1, max_length, max_length + 1}
\* line 25 without truncation=True
Tokenize_untruncated(n) == [j \in 1..n |-> 2]

\* line 25: one id per token of the prompt, at most max_length of them
Tokenize(n) == [j \in 1..Min(n, max_length) |-> 2]

\* the weights of the network decide the arg-max: the token at position
\* net.eos_at and after is the end-of-sequence token, the ones before are 1
EosPositions == {2, max_length + 1}
\* the networks checked: those with an odd number of blocks emit the
\* end-of-sequence token at position 2, the others never within max_length
EosAt(a) == IF a.n % 2 = 1 THEN 2 ELSE max_length + 1

\* line 69 with <= for <
LoopContinues_off_by_one(ids) == Len(ids) <= max_length

\* line 69: the test of the while loop
LoopContinues(ids) == Len(ids) < max_length

\* sequences model.generate may sample for an input: the input followed by
\* tokens up to max_length, nothing after an end-of-sequence token
Ones(n) == [j \in 1..n |-> 1]
NativeOutputs(ids) ==
  IF Len(ids) >= max_length THEN {ids}
  ELSE { ids \o Ones(k) \o << eos_token_id >> : k \in 0..(max_length - Len(ids) - 1) }
         \cup { ids \o Ones(max_length - Len(ids)) }

IsPrefix(s, t) == Len(s) <= Len(t) /\ \A j \in 1..Len(s) : s[j] = t[j]

(* ---------------- text ---------------- *)
\* a text is a sequence of characters; the two characters "A:" stand for
\* the marker "Assistant:" of inference.py line 53
Marker == << "A", ":" >>
Whitespace == {" "}

\* what tokenizer.decode makes of the prompt token 2 and the generated
\* token 1: the vocabularies give texts without the marker, with the marker
\* once and several times, with blanks around it, and with the marker
\* made of two adjacent tokens
Vocabularies ==
  { [t \in {1, 2} |-> IF t = 2 THEN v[1] ELSE v[2]] :
      v \in { << <<"x">>, <<"y">> >>,
              << <<"A", ":">>, <<" ", "y", " ">> >>,
              << <<" ", "x">>, <<"A", ":", " ", "y", " ">> >>,
              << <<"A">>, <<":">> >>,
              << <<":", "A">>, <<" ">> >> } }

\* tokenizer.decode(ids, skip_special_tokens=True)
RECURSIVE Decode(_, _)
Decode(ids, vocab) ==
  IF ids = << >> THEN << >>
  ELSE (IF Head(ids) = eos_token_id THEN << >> ELSE vocab[Head(ids)])
         \o Decode(Tail(ids), vocab)

\* the places where the marker starts in a text
Occurrences(text) ==
  { i \in 1..Len(text) :
      /\ i + Len(Marker) - 1 <= Len(text)
      /\ SubSeq(text, i, i + Len(Marker) - 1) = Marker }
Least(S) == CHOOSE i \in S : \A j \in S : i <= j

\* str.split(Marker, maxsplit): the pieces between the first maxsplit
\* occurrences found from the left
RECURSIVE Split(_, _)
Split(text, maxsplit) ==
  IF maxsplit = 0 \/ Occurrences(text) = {} THEN << text >>
  ELSE LET i == Least(Occurrences(text))
       IN << SubSeq(text, 1, i - 1) >>
            \o Split(SubSeq(text, i + Len(Marker), Len(text)), maxsplit - 1)

\* str.strip(): leading and trailing whitespace removed
RECURSIVE LStrip(_)
LStrip(text) ==
  IF text # << >> /\ Head(text) \in Whitespace THEN LStrip(Tail(text)) ELSE text
RECURSIVE RStrip(_)
RStrip(text) ==
  IF text # << >> /\ text[Len(text)] \in Whitespace
  THEN RStrip(SubSeq(text, 1, Len(text) - 1)) ELSE text
Strip(text) == RStrip(LStrip(text))

\* line 53 without the maxsplit argument: split at every occurrence
ExtractResponse_every_split(generated_text) ==
  LET parts == Split(generated_text, Len(generated_text))
  IN Strip(parts[Len(parts)])

\* line 53: generated_text.split("Assistant:", 1)[-1].strip()
ExtractResponse(generated_text) ==
  LET parts == Split(generated_text, 1)
  IN Strip(parts[Len(parts)])

(* ---------------- state ---------------- *)
VARIABLES
  device_config,      \* ModelManager.device_config (never assigned after __init__)
  net,                \* what model_path holds: architecture, parameter count, weights
  model,              \* ModelManager.model: the number of the load that made it
  tokenizer,          \* ModelManager.tokenizer, likewise
  pipeline_stages,    \* ModelManager.pipeline_stages
  is_sharded,         \* ModelManager.is_sharded
  inference_engine,   \* ModelManager.inference_engine: the number of the load whose
                      \* model and tokenizer it was constructed with
  placement,          \* device of every leaf of every model object loaded so far
  ld,                 \* the load_model call in progress and its strategy object
  calls,              \* the generate_response call of every request thread
  limit,              \* what the process around the manager lets overlap:
                      \* calls = the number of request threads, overlap = whether
                      \* load_model may run while a request is being served
  first_strategy      \* history: the strategy the first selection returned

vars == << device_config, net, model, tokenizer, pipeline_stages, is_sharded,
           inference_engine, placement, ld, calls, limit, first_strategy >>

cfgVars == << device_config, net, limit >>
mgrVars == << model, tokenizer, pipeline_stages, is_sharded, inference_engine >>

primary_device == device_config.main_device
secondary_device == device_config.secondary_device
arch == net.arch

\* the strategy object and the locals of a load_model call that has not run
IdleLoad ==
  [ pc |-> "idle", result |-> None, strategy |-> None, size |-> 0,
    s_is_sharded |-> FALSE, s_stages |-> NoStages, success |-> None,
    i |-> 0, offload_count |-> 0, targets |-> << >>, raised |-> FALSE,
    reloc_failed |-> FALSE,
    loader_calls |-> 0, loader_raised |-> FALSE, applies |-> 0, engines |-> 0 ]

\* the locals of a generate_response call that has not run
IdleCall ==
  [ pc |-> "idle", prompt |-> 0, engine |-> NoObject, stages |-> NoStages,
    input_ids |-> << >>, current_ids |-> << >>, steps |-> 0, failed_at |-> None,
    path |-> None, relocated |-> FALSE, native_input |-> NoIds, output |-> NoIds,
    loop_entries |-> 0, native_calls |-> 0,
    stage_log |-> << >>, transfers |-> 0, embedded |-> << >>,
    generated_text |-> << >>, response_text |-> << >>,
    result |-> None ]

CallsInFlight == Cardinality({c \in Callers : calls[c].pc # "idle"})
LoadInFlight == ld.pc # "idle"

Init ==
  /\ device_config \in
       { [main_device |-> p[1], secondary_device |-> p[2], main_weight |-> w] :
           p \in DevicePairs, w \in MainWeights }
  /\ net \in { x \in [arch : Architectures,
                        param_count : ParamCounts(device_config),
                        eos_at : EosPositions] :
                   x.eos_at = EosAt(x.arch) }
  /\ model = NoObject
  /\ tokenizer = NoObject
  /\ pipeline_stages = NoStages
  /\ is_sharded = FALSE
  /\ inference_engine = NoObject
  /\ placement = [g \in ModelObjects |-> << >>]
  /\ ld = IdleLoad
  /\ calls = [c \in Callers |-> IdleCall]
  /\ limit = [calls |-> 1, overlap |-> FALSE]
  /\ first_strategy = None

(* ---------------- ModelManager.load_model ---------------- *)
\* the placement of a model object is tracked while a load is placing it or an
\* engine holds it (the manager's engine or the engine of a call in flight);
\* a model no engine holds runs nowhere, and its placement is dropped
Collect(pl, keep) ==
  [g \in DOMAIN pl |->
     IF g \in keep \/ (\E c \in Callers : calls[c].engine = g) THEN pl[g]
     ELSE << >>]

\* the object the loader returns next: one that no engine holds
Held == {inference_engine} \cup {calls[c].engine : c \in Callers}
NewObject == CHOOSE g \in ModelObjects \ Held : \A h \in ModelObjects \ Held : g <= h

\* load_model returns: the locals are dropped, what the call did is known
\* to its caller until the caller goes on
Returned(l, res, exc) ==
  [IdleLoad EXCEPT !.pc = "done",
                   !.result = res, !.raised = exc, !.strategy = l.strategy,
                   !.reloc_failed = l.reloc_failed,
                   !.loader_calls = l.loader_calls,
                   !.loader_raised = l.loader_raised,
                   !.applies = l.applies, !.engines = l.engines]

\* load_model returns False from its except clause (lines 50-52)
LoadFails(l) == Returned(l, False, TRUE)

\* line 31 with the loader called a second time when it raises
load_model_begin_retry ==
  /\ ld.pc = "idle"
  /\ CallsInFlight = 0 \/ limit.overlap
  /\ \E ok \in BOOLEAN :
       IF ok
       THEN /\ model' = NewObject
            /\ tokenizer' = NewObject
            /\ placement' = Collect([placement EXCEPT
                                        ![NewObject] = [l \in Leaves(arch) |-> "cpu"]],
                                     {NewObject, inference_engine})
            /\ ld' = [IdleLoad EXCEPT
                        !.loader_calls = 1,
                        !.pc = IF primary_device # secondary_device
                               THEN "select" ELSE "single"]
       ELSE /\ ld' = LoadFails([IdleLoad EXCEPT !.loader_calls = 2,
                                                !.loader_raised = TRUE])
            /\ UNCHANGED << model, tokenizer, placement >>
  /\ UNCHANGED << cfgVars, pipeline_stages, is_sharded, inference_engine,
                  calls, first_strategy >>

\* line 31: ModelLoader.load_model_and_tokenizer returns or raises
load_model_begin ==
  /\ ld.pc = "idle"
  /\ CallsInFlight = 0 \/ limit.overlap
  /\ \E ok \in BOOLEAN :
       IF ok
       THEN /\ model' = NewObject
            /\ tokenizer' = NewObject
            /\ placement' = Collect([placement EXCEPT
                                        ![NewObject] = [l \in Leaves(arch) |-> "cpu"]],
                                     {NewObject, inference_engine})
            /\ ld' = [IdleLoad EXCEPT
                        !.loader_calls = 1,
                        !.pc = IF primary_device # secondary_device
                               THEN "select" ELSE "single"]
       ELSE /\ ld' = LoadFails([IdleLoad EXCEPT !.loader_calls = 1,
                                                !.loader_raised = TRUE])
            /\ UNCHANGED << model, tokenizer, placement >>
  /\ UNCHANGED << cfgVars, pipeline_stages, is_sharded, inference_engine,
                  calls, first_strategy >>

\* lines 36-40: both devices are the same, self.model.to(main_device)
load_single_device ==
  /\ ld.pc = "single"
  /\ \/ /\ placement' = [placement EXCEPT
                           ![model] = MoveTo(@, Leaves(arch), primary_device)]
        /\ ld' = [ld EXCEPT !.pc = "engine"]
     \/ \* the relocation raises and load_model returns False
        /\ placement' = Collect(placement, {inference_engine})
        /\ ld' = LoadFails([ld EXCEPT !.reloc_failed = TRUE])
  /\ UNCHANGED << cfgVars, mgrVars, calls, first_strategy >>

\* _apply_distribution_strategy lines 57-72: estimate, select, construct,
\* call apply()
select_strategy ==
  /\ ld.pc = "select"
  /\ LET size == estimate_model_size_gb(device_config, net.param_count)
         name == get_strategy(SelectStrategy(device_config, size))
     IN /\ IF name \in StrategyNames
           THEN /\ ld' = [ld EXCEPT !.pc = name, !.strategy = name, !.size = size,
                                    !.i = 1, !.applies = @ + 1]
                /\ UNCHANGED placement
           ELSE /\ ld' = LoadFails([ld EXCEPT !.size = size])
                /\ placement' = Collect(placement, {inference_engine})
        /\ first_strategy' = IF first_strategy = None THEN name ELSE first_strategy
  /\ UNCHANGED << cfgVars, mgrVars, calls >>

(* ---------------- ModelParallelismStrategy.apply ---------------- *)
\* math.ceil(len(all_layers) * primary_ratio)
primary_layers_count == Ceil(Len(Children(arch)), device_config.main_weight)

\* line 31 with <= for <
TargetDevice_off_by_one(i) ==
  IF i - 1 <= primary_layers_count THEN primary_device ELSE secondary_device

\* line 31, with i counted from 0 in the source and from 1 here
TargetDevice(i) ==
  IF i - 1 < primary_layers_count THEN primary_device ELSE secondary_device

\* the loop of lines 29-38 without its try: a relocation that raises ends it
mp_relocate_abort ==
  /\ ld.pc = "model_parallelism"
  /\ ld.i <= Len(Children(arch))
  /\ LET child == Children(arch)[ld.i]
         target == TargetDevice(ld.i)
     IN \/ /\ placement' = [placement EXCEPT ![model] = MoveTo(@, child, target)]
           /\ ld' = [ld EXCEPT !.i = @ + 1,
                       !.targets = Append(@, [child |-> ld.i, device |-> target,
                                              moved |-> TRUE])]
        \/ \E k \in FailPrefixes(child) :
             /\ placement' = [placement EXCEPT
                                ![model] = MoveLeaves(@, child, target, k)]
             /\ ld' = [ld EXCEPT !.i = Len(Children(arch)) + 1, !.reloc_failed = TRUE,
                         !.targets = Append(@, [child |-> ld.i, device |-> target,
                                                moved |-> FALSE])]
  /\ UNCHANGED << cfgVars, mgrVars, calls, first_strategy >>

\* lines 29-38: one pass of the loop over the children
mp_relocate ==
  /\ ld.pc = "model_parallelism"
  /\ ld.i <= Len(Children(arch))
  /\ LET child == Children(arch)[ld.i]
         target == TargetDevice(ld.i)
     IN \/ /\ placement' = [placement EXCEPT ![model] = MoveTo(@, child, target)]
           /\ ld' = [ld EXCEPT !.i = @ + 1,
                       !.targets = Append(@, [child |-> ld.i, device |-> target,
                                              moved |-> TRUE])]
        \/ \E k \in FailPrefixes(child) :
             /\ placement' = [placement EXCEPT
                                ![model] = MoveLeaves(@, child, target, k)]
             /\ ld' = [ld EXCEPT !.i = @ + 1, !.reloc_failed = TRUE,
                         !.targets = Append(@, [child |-> ld.i, device |-> target,
                                                moved |-> FALSE])]
  /\ UNCHANGED << cfgVars, mgrVars, calls, first_strategy >>

\* lines 40-44: the loop is over
mp_finish ==
  /\ ld.pc = "model_parallelism"
  /\ ld.i > Len(Children(arch))
  /\ ld' = [ld EXCEPT !.s_is_sharded = TRUE, !.success = True, !.pc = "store"]
  /\ UNCHANGED << cfgVars, mgrVars, placement, calls, first_strategy >>

(* ---------------- PipelineParallelismStrategy.apply ---------------- *)
\* line 29
split_point == Ceil(arch.n, device_config.main_weight)

\* lines 32-38: the stages in the order the dict literal builds them; a list
\* of blocks is the sequence of their numbers
StageOrder ==
  << "embeddings", "pos_embeddings", "early_layers", "late_layers", "output_head" >>

StageModules ==
  [ embeddings |-> LeafWte,
    pos_embeddings |-> LeafWpe,
    early_layers |-> [j \in 1..split_point |-> j],
    late_layers |-> [j \in 1..(arch.n - split_point) |-> split_point + j],
    output_head |-> LeafLnF(arch) ]

\* the leaves a stage holds
StageLeaves(stages, name) ==
  IF name \in {"early_layers", "late_layers"}
  THEN UNION { BlockLeaves(stages[name][j]) : j \in 1..Len(stages[name]) }
  ELSE stages[name]

\* the dict literal with every stage sent to the primary device
StageDevice_all_primary(name) == primary_device

\* the device the dict literal sends a stage to
StageDevice(name) ==
  IF name \in {"embeddings", "pos_embeddings", "early_layers"}
  THEN primary_device ELSE secondary_device

\* the else branch raising instead of degrading
pp_primary_only_raises ==
  /\ ld.pc = "pipeline_parallelism"
  /\ ~HasTransformer(arch)
  /\ placement' = Collect(placement, {inference_engine})
  /\ ld' = LoadFails(ld)
  /\ UNCHANGED << cfgVars, mgrVars, calls, first_strategy >>

\* lines 43-48: no transformer attribute, the whole model goes to the primary
pp_primary_only ==
  /\ ld.pc = "pipeline_parallelism"
  /\ ~HasTransformer(arch)
  /\ \/ /\ placement' = [placement EXCEPT
                           ![model] = MoveTo(@, Leaves(arch), primary_device)]
        /\ ld' = [ld EXCEPT !.success = False, !.pc = "store"]
     \/ \E k \in FailPrefixes(Leaves(arch)) :
          /\ placement' = [placement EXCEPT
                             ![model] = MoveLeaves(@, Leaves(arch), primary_device, k)]
          /\ ld' = [ld EXCEPT !.pc = "pp_except", !.reloc_failed = TRUE]
  /\ UNCHANGED << cfgVars, mgrVars, calls, first_strategy >>

\* lines 32-38 with self.pipeline_stages assigned entry by entry
pp_build_stage_incremental ==
  /\ ld.pc = "pipeline_parallelism"
  /\ HasTransformer(arch)
  /\ ld.i <= Len(StageOrder)
  /\ LET name == StageOrder[ld.i]
         S == StageLeaves(StageModules, name)
     IN IF name \in {"embeddings", "pos_embeddings"} /\ ~HasWteWpe(arch)
        THEN /\ ld' = [ld EXCEPT !.pc = "pp_except"]
             /\ UNCHANGED placement
        ELSE \/ /\ placement' = [placement EXCEPT
                                   ![model] = MoveTo(@, S, StageDevice(name))]
                /\ ld' = IF ld.i < Len(StageOrder)
                         THEN [ld EXCEPT !.i = @ + 1,
                                         !.s_stages[name] = StageModules[name]]
                         ELSE [ld EXCEPT !.s_stages = StageModules,
                                         !.success = True, !.pc = "store"]
             \/ \E k \in FailPrefixes(S) :
                  /\ placement' = [placement EXCEPT
                                     ![model] = MoveLeaves(@, S, StageDevice(name), k)]
                  /\ ld' = [ld EXCEPT !.pc = "pp_except", !.reloc_failed = TRUE]
  /\ UNCHANGED << cfgVars, mgrVars, calls, first_strategy >>

\* lines 26-41: one entry of the dict literal; the fifth one completes it
pp_build_stage ==
  /\ ld.pc = "pipeline_parallelism"
  /\ HasTransformer(arch)
  /\ ld.i <= Len(StageOrder)
  /\ LET name == StageOrder[ld.i]
         S == StageLeaves(StageModules, name)
     IN IF name \in {"embeddings", "pos_embeddings"} /\ ~HasWteWpe(arch)
        THEN \* AttributeError: transformer has no wte
             /\ ld' = [ld EXCEPT !.pc = "pp_except"]
             /\ UNCHANGED placement
        ELSE \/ /\ placement' = [placement EXCEPT
                                   ![model] = MoveTo(@, S, StageDevice(name))]
                /\ ld' = IF ld.i < Len(StageOrder)
                         THEN [ld EXCEPT !.i = @ + 1]
                         ELSE [ld EXCEPT !.s_stages = StageModules,
                                         !.success = True, !.pc = "store"]
             \/ \E k \in FailPrefixes(S) :
                  /\ placement' = [placement EXCEPT
                                     ![model] = MoveLeaves(@, S, StageDevice(name), k)]
                  /\ ld' = [ld EXCEPT !.pc = "pp_except", !.reloc_failed = TRUE]
  /\ UNCHANGED << cfgVars, mgrVars, calls, first_strategy >>

\* lines 50-54: the except clause moves the whole model to the primary device
pp_except ==
  /\ ld.pc = "pp_except"
  /\ \/ /\ placement' = [placement EXCEPT
                           ![model] = MoveTo(@, Leaves(arch), primary_device)]
        /\ ld' = [ld EXCEPT !.success = False, !.pc = "store"]
     \/ \* the relocation raises and load_model returns False
        /\ placement' = Collect(placement, {inference_engine})
        /\ ld' = LoadFails([ld EXCEPT !.reloc_failed = TRUE])
  /\ UNCHANGED << cfgVars, mgrVars, calls, first_strategy >>

(* ---------------- LayerOffloadingStrategy.apply ---------------- *)
\* line 23: the entire model goes to the secondary device first
lo_to_secondary ==
  /\ ld.pc = "layer_offloading"
  /\ \/ /\ placement' = [placement EXCEPT
                           ![model] = MoveTo(@, Leaves(arch), secondary_device)]
        /\ ld' = [ld EXCEPT !.pc = "lo_loop", !.i = 1, !.offload_count = 0]
     \/ \E k \in FailPrefixes(Leaves(arch)) :
          /\ placement' = [placement EXCEPT
                             ![model] = MoveLeaves(@, Leaves(arch), secondary_device, k)]
          /\ ld' = [ld EXCEPT !.pc = "lo_except", !.reloc_failed = TRUE]
  /\ UNCHANGED << cfgVars, mgrVars, calls, first_strategy >>

\* lines 29-36: one pass of the loop over named_modules()
lo_module ==
  /\ ld.pc = "lo_loop"
  /\ ld.i <= Len(NamedModules(arch))
  /\ LET m == NamedModules(arch)[ld.i]
     IN IF MatchesAttention(m.name)
        THEN \/ /\ placement' = [placement EXCEPT
                                   ![model] = MoveTo(@, m.leaves, primary_device)]
                /\ ld' = [ld EXCEPT !.i = @ + 1, !.offload_count = @ + 1]
             \/ \E k \in FailPrefixes(m.leaves) :
                  /\ placement' = [placement EXCEPT
                                     ![model] = MoveLeaves(@, m.leaves, primary_device, k)]
                  /\ ld' = [ld EXCEPT !.i = @ + 1, !.reloc_failed = TRUE]
        ELSE /\ ld' = [ld EXCEPT !.i = @ + 1]
             /\ UNCHANGED placement
  /\ UNCHANGED << cfgVars, mgrVars, calls, first_strategy >>

\* lines 39-41: get_input_embeddings().to(primary)
lo_input_embeddings ==
  /\ ld.pc = "lo_loop"
  /\ ld.i > Len(NamedModules(arch))
  /\ IF HasInputEmbeddings(arch)
     THEN \/ /\ placement' = [placement EXCEPT
                                ![model] = MoveTo(@, LeafWte, primary_device)]
             /\ ld' = [ld EXCEPT !.pc = "lo_head", !.offload_count = @ + 1]
          \/ /\ ld' = [ld EXCEPT !.pc = "lo_except", !.reloc_failed = TRUE]
             /\ UNCHANGED placement
     ELSE /\ ld' = [ld EXCEPT !.pc = "lo_head"]
          /\ UNCHANGED placement
  /\ UNCHANGED << cfgVars, mgrVars, calls, first_strategy >>

\* lines 44-51: get_output_embeddings().to(primary), return offload_count > 0
lo_output_embeddings ==
  /\ ld.pc = "lo_head"
  /\ IF HasOutputEmbeddings(arch)
     THEN \/ /\ placement' = [placement EXCEPT
                                ![model] = MoveTo(@, LeafLmHead(arch), primary_device)]
             /\ ld' = [ld EXCEPT !.pc = "store", !.offload_count = @ + 1,
                                 !.success = True]
          \/ /\ ld' = [ld EXCEPT !.pc = "lo_except", !.reloc_failed = TRUE]
             /\ UNCHANGED placement
     ELSE /\ ld' = [ld EXCEPT !.pc = "store", !.success = IF ld.offload_count > 0 THEN True ELSE False]
          /\ UNCHANGED placement
  /\ UNCHANGED << cfgVars, mgrVars, calls, first_strategy >>

\* lines 53-57: the except clause moves the whole model to the primary device
lo_except ==
  /\ ld.pc = "lo_except"
  /\ \/ /\ placement' = [placement EXCEPT
                           ![model] = MoveTo(@, Leaves(arch), primary_device)]
        /\ ld' = [ld EXCEPT !.success = False, !.pc = "store"]
     \/ \* the relocation raises and load_model returns False
        /\ placement' = Collect(placement, {inference_engine})
        /\ ld' = LoadFails([ld EXCEPT !.reloc_failed = TRUE])
  /\ UNCHANGED << cfgVars, mgrVars, calls, first_strategy >>

(* ---------------- back in ModelManager ---------------- *)
\* _apply_distribution_strategy lines 75-78
store_strategy_results ==
  /\ ld.pc = "store"
  /\ is_sharded' = ld.s_is_sharded
  /\ pipeline_stages' = ld.s_stages
  /\ ld' = [ld EXCEPT !.pc = "engine"]
  /\ UNCHANGED << cfgVars, model, tokenizer, inference_engine, placement,
                  calls, first_strategy >>

\* load_model lines 43-48
load_model_finish ==
  /\ ld.pc = "engine"
  /\ inference_engine' = model
  /\ placement' = Collect(placement, {model})
  /\ ld' = Returned([ld EXCEPT !.engines = @ + 1], True, FALSE)
  /\ UNCHANGED << cfgVars, model, tokenizer, pipeline_stages, is_sharded,
                  calls, first_strategy >>

\* the caller of load_model has the result and goes on
load_model_return ==
  /\ ld.pc = "done"
  /\ ld' = IdleLoad
  /\ UNCHANGED << cfgVars, mgrVars, placement, calls, first_strategy >>

(* ---------------- generate_response ---------------- *)
\* the call is over: its locals are dropped, what it did is known to the
\* request handler until it has answered
CallOver(call, res) ==
  [IdleCall EXCEPT !.pc = "done", !.result = res, !.path = call.path,
                   !.failed_at = call.failed_at, !.relocated = call.relocated,
                   !.loop_entries = call.loop_entries,
                   !.native_calls = call.native_calls]

\* the call raises to its caller
Raises(call, kind) == CallOver(call, kind)

genUnchanged == << cfgVars, mgrVars, ld, first_strategy >>

\* generate_response without the test of line 88
generate_begin_unchecked(c) ==
  /\ calls[c].pc = "idle"
  /\ c <= limit.calls
  /\ \A d \in 1..(c - 1) : calls[d].pc # "idle"
  /\ ~LoadInFlight \/ limit.overlap
  /\ \E n \in PromptLengths :
       calls' = [calls EXCEPT ![c] =
                   [IdleCall EXCEPT !.pc = "tokenize", !.prompt = n,
                                    !.engine = inference_engine,
                                    !.stages = pipeline_stages]]
  /\ UNCHANGED << genUnchanged, placement >>

\* ModelManager.generate_response lines 88-91 and InferenceEngine lines 20-22;
\* an engine is only ever constructed with the model and tokenizer of a load
\* that returned them, so the test of line 21 is the test of line 88
generate_begin(c) ==
  /\ calls[c].pc = "idle"
  /\ c <= limit.calls
  /\ \A d \in 1..(c - 1) : calls[d].pc # "idle"   \* the first free thread
  /\ ~LoadInFlight \/ limit.overlap
  /\ IF inference_engine = NoObject
     THEN calls' = [calls EXCEPT ![c] = Raises(IdleCall, "not_loaded")]
     ELSE \E n \in PromptLengths :
            calls' = [calls EXCEPT ![c] =
                        [IdleCall EXCEPT !.pc = "tokenize", !.prompt = n,
                                         !.engine = inference_engine,
                                         !.stages = pipeline_stages]]
  /\ UNCHANGED << genUnchanged, placement >>

\* lines 25-36: tokenize, move the inputs, choose the path
tokenize(c) ==
  /\ calls[c].pc = "tokenize"
  /\ \/ calls' = [calls EXCEPT ![c] =
                    [@ EXCEPT !.input_ids = Tokenize(calls[c].prompt),
                              !.prompt = 0,
                              !.pc = IF calls[c].stages # NoStages
                                     THEN "pipeline" ELSE "native"]]
     \/ calls' = [calls EXCEPT ![c] = Raises(@, "error")]
  /\ UNCHANGED << genUnchanged, placement >>

\* lines 39-46: self.model.generate on the non-pipelined path
native_generate(c) ==
  /\ calls[c].pc = "native"
  /\ \/ \E out \in NativeOutputs(calls[c].input_ids) :
          calls' = [calls EXCEPT ![c] =
                      [@ EXCEPT !.path = "native", !.native_input = calls[c].input_ids,
                                !.native_calls = @ + 1,
                                !.output = out, !.pc = "decode"]]
     \/ calls' = [calls EXCEPT ![c] =
                    Raises([@ EXCEPT !.native_calls = @ + 1], "error")]
  /\ UNCHANGED << genUnchanged, placement >>

(* ---------------- InferenceEngine._pipeline_generate ---------------- *)
\* lines 66-69 and 101: clone the input; test the loop; return when it is over
loop_test(c) ==
  /\ calls[c].pc \in {"pipeline", "loop"}
  /\ LET ids == IF calls[c].pc = "pipeline" THEN calls[c].input_ids
                ELSE calls[c].current_ids
     IN calls' = [calls EXCEPT ![c] =
          LET entries == IF calls[c].pc = "pipeline" THEN calls[c].loop_entries + 1
                         ELSE calls[c].loop_entries
          IN IF LoopContinues(ids)
             THEN [@ EXCEPT !.current_ids = ids, !.loop_entries = entries,
                            !.stage_log = << >>, !.pc = "embeddings"]
             ELSE [@ EXCEPT !.current_ids = ids, !.loop_entries = entries,
                            !.path = "pipeline", !.output = ids, !.pc = "decode"]]
  /\ UNCHANGED << genUnchanged, placement >>

\* lines 71-78: embeddings plus position embeddings, on the primary device
embedding(c) ==
  /\ calls[c].pc = "embeddings"
  /\ \/ calls' = [calls EXCEPT ![c] =
                    [@ EXCEPT !.embedded = calls[c].current_ids,
                              !.stage_log = Append(@, "embeddings"),
                              !.pc = "early_layers"]]
     \/ \* the stage raises: the except clause of line 103 takes over
        calls' = [calls EXCEPT ![c].pc = "fallback", ![c].failed_at = "embeddings"]
  /\ UNCHANGED << genUnchanged, placement >>

\* line 81 followed by line 85: the hidden states are not transferred
early_layers_no_transfer(c) ==
  /\ calls[c].pc = "early_layers"
  /\ \/ calls' = [calls EXCEPT ![c] =
                    [@ EXCEPT !.stage_log = Append(@, "early_layers"),
                              !.pc = "late_layers"]]
     \/ calls' = [calls EXCEPT ![c].pc = "fallback", ![c].failed_at = "early_layers"]
  /\ UNCHANGED << genUnchanged, placement >>

\* line 81: the blocks of the primary device
early_layers(c) ==
  /\ calls[c].pc = "early_layers"
  /\ \/ calls' = [calls EXCEPT ![c] =
                    [@ EXCEPT !.stage_log = Append(@, "early_layers"),
                              !.pc = "transfer"]]
     \/ \* the stage raises: the except clause of line 103 takes over
        calls' = [calls EXCEPT ![c].pc = "fallback", ![c].failed_at = "early_layers"]
  /\ UNCHANGED << genUnchanged, placement >>

\* line 84: hidden_states.to(pipeline_stages['late_layers'].device)
cross_device_transfer(c) ==
  /\ calls[c].pc = "transfer"
  /\ \/ calls' = [calls EXCEPT ![c] =
                    [@ EXCEPT !.stage_log = Append(@, "transfer"),
                              !.transfers = @ + 1,
                              !.pc = "late_layers"]]
     \/ \* the stage raises: the except clause of line 103 takes over
        calls' = [calls EXCEPT ![c].pc = "fallback", ![c].failed_at = "transfer"]
  /\ UNCHANGED << genUnchanged, placement >>

\* line 85: the blocks of the secondary device
late_layers(c) ==
  /\ calls[c].pc = "late_layers"
  /\ \/ calls' = [calls EXCEPT ![c] =
                    [@ EXCEPT !.stage_log = Append(@, "late_layers"),
                              !.pc = "output_head"]]
     \/ \* the stage raises: the except clause of line 103 takes over
        calls' = [calls EXCEPT ![c].pc = "fallback", ![c].failed_at = "late_layers"]
  /\ UNCHANGED << genUnchanged, placement >>

\* line 88: the final normalisation
output_head(c) ==
  /\ calls[c].pc = "output_head"
  /\ \/ calls' = [calls EXCEPT ![c] =
                    [@ EXCEPT !.stage_log = Append(@, "output_head"),
                              !.pc = "select"]]
     \/ \* the stage raises: the except clause of line 103 takes over
        calls' = [calls EXCEPT ![c].pc = "fallback", ![c].failed_at = "output_head"]
  /\ UNCHANGED << genUnchanged, placement >>

\* lines 91-92: next_token_logits.argmax
ArgMaxToken(ids) == IF Len(ids) + 1 >= net.eos_at THEN eos_token_id ELSE 1

\* lines 91-99 with the token sampled from the logits, not their arg-max
select_token_sampled(c) ==
  /\ calls[c].pc = "select"
  /\ \/ \E next_token \in Tokens :
          LET ids == Append(calls[c].current_ids, next_token)
          IN calls' = [calls EXCEPT ![c] =
             IF next_token = eos_token_id
             THEN [@ EXCEPT !.current_ids = ids, !.steps = @ + 1,
                            !.stage_log = Append(@, "select"),
                            !.path = "pipeline", !.output = ids, !.pc = "decode"]
             ELSE [@ EXCEPT !.current_ids = ids, !.steps = @ + 1,
                            !.stage_log = Append(@, "select"), !.pc = "loop"]]
     \/ calls' = [calls EXCEPT ![c] = [@ EXCEPT !.pc = "fallback", !.failed_at = "select"]]
  /\ UNCHANGED << genUnchanged, placement >>

\* lines 91-99: lm_head, arg-max, append, stop on the end-of-sequence token
select_token(c) ==
  /\ calls[c].pc = "select"
  /\ \/ LET next_token == ArgMaxToken(calls[c].current_ids)
            ids == Append(calls[c].current_ids, next_token)
        IN calls' = [calls EXCEPT ![c] =
             IF next_token = eos_token_id
             THEN [@ EXCEPT !.current_ids = ids, !.steps = @ + 1,
                            !.stage_log = Append(@, "select"),
                            !.path = "pipeline", !.output = ids, !.pc = "decode"]
             ELSE [@ EXCEPT !.current_ids = ids, !.steps = @ + 1,
                            !.stage_log = Append(@, "select"), !.pc = "loop"]]
     \/ calls' = [calls EXCEPT ![c] = [@ EXCEPT !.pc = "fallback", !.failed_at = "select"]]
  /\ UNCHANGED << genUnchanged, placement >>

\* line 109 handing over the sequence the loop had extended
FallbackInput_current(call) == call.current_ids

\* line 109: the ids the fallback hands to model.generate
FallbackInput(call) == call.input_ids

\* line 107 followed by the engine giving up its stage map
fallback_relocate_drops_stages(c) ==
  /\ calls[c].pc = "fallback"
  /\ LET g == calls[c].engine
     IN \/ /\ placement' = [placement EXCEPT
                              ![g] = MoveTo(@, Leaves(arch), primary_device)]
           /\ calls' = [calls EXCEPT ![c] =
                          [@ EXCEPT !.relocated = TRUE, !.pc = "fallback_generate"]]
           /\ pipeline_stages' = NoStages
        \/ \E k \in FailPrefixes(Leaves(arch)) :
             /\ placement' = [placement EXCEPT
                                ![g] = MoveLeaves(@, Leaves(arch), primary_device, k)]
             /\ calls' = [calls EXCEPT ![c] = Raises(@, "error")]
             /\ UNCHANGED pipeline_stages
  /\ UNCHANGED << cfgVars, model, tokenizer, is_sharded, inference_engine,
                  ld, first_strategy >>

\* lines 103-107: the except clause moves the whole model to the main device
fallback_relocate(c) ==
  /\ calls[c].pc = "fallback"
  /\ LET g == calls[c].engine
     IN \/ /\ placement' = [placement EXCEPT
                              ![g] = MoveTo(@, Leaves(arch), primary_device)]
           /\ calls' = [calls EXCEPT ![c] =
                          [@ EXCEPT !.relocated = TRUE, !.pc = "fallback_generate"]]
        \/ \E k \in FailPrefixes(Leaves(arch)) :
             /\ placement' = [placement EXCEPT
                                ![g] = MoveLeaves(@, Leaves(arch), primary_device, k)]
             /\ calls' = [calls EXCEPT ![c] = Raises(@, "error")]
  /\ UNCHANGED genUnchanged

\* the except clause trying native generation a second time when it raises
fallback_generate_retry(c) ==
  /\ calls[c].pc = "fallback_generate"
  /\ \/ \E out \in NativeOutputs(FallbackInput(calls[c])) :
          calls' = [calls EXCEPT ![c] =
                      [@ EXCEPT !.path = "fallback",
                                !.native_input = FallbackInput(calls[c]),
                                !.native_calls = @ + 1,
                                !.output = out, !.pc = "decode"]]
     \/ calls' = [calls EXCEPT ![c] =
                    [@ EXCEPT !.native_calls = @ + 1, !.pc = "native"]]
  /\ UNCHANGED << genUnchanged, placement >>

\* lines 108-115: self.model.generate on the original input
fallback_generate(c) ==
  /\ calls[c].pc = "fallback_generate"
  /\ \/ \E out \in NativeOutputs(FallbackInput(calls[c])) :
          calls' = [calls EXCEPT ![c] =
                      [@ EXCEPT !.path = "fallback",
                                !.native_input = FallbackInput(calls[c]),
                                !.native_calls = @ + 1,
                                !.output = out, !.pc = "decode"]]
     \/ calls' = [calls EXCEPT ![c] =
                    Raises([@ EXCEPT !.native_calls = @ + 1], "error")]
  /\ UNCHANGED << genUnchanged, placement >>

\* lines 48-56: decode the ids and return the response text
decode_response(c) ==
  /\ calls[c].pc = "decode"
  /\ \E vocab \in Vocabularies :
       LET generated_text == Decode(calls[c].output, vocab)
       IN calls' = [calls EXCEPT ![c] =
                      [CallOver(@, "text") EXCEPT
                         !.generated_text = generated_text,
                         !.response_text = ExtractResponse(generated_text)]]
  /\ UNCHANGED << genUnchanged, placement >>

\* query.py lines 77-89: the handler turns the result into its answer
respond(c) ==
  /\ calls[c].pc = "done"
  /\ calls' = [calls EXCEPT ![c] = IdleCall]
  /\ UNCHANGED << genUnchanged, placement >>

Next ==
  \/ load_model_begin
  \/ load_single_device
  \/ select_strategy
  \/ mp_relocate
  \/ mp_finish
  \/ pp_primary_only
  \/ pp_build_stage
  \/ pp_except
  \/ lo_to_secondary
  \/ lo_module
  \/ lo_input_embeddings
  \/ lo_output_embeddings
  \/ lo_except
  \/ store_strategy_results
  \/ load_model_finish
  \/ load_model_return
  \/ \E c \in Callers :
       \/ generate_begin(c)
       \/ tokenize(c)
       \/ native_generate(c)
       \/ loop_test(c)
       \/ embedding(c)
       \/ early_layers(c)
       \/ cross_device_transfer(c)
       \/ late_layers(c)
       \/ output_head(c)
       \/ select_token(c)
       \/ fallback_relocate(c)
       \/ fallback_generate(c)
       \/ decode_response(c)
       \/ respond(c)

Spec == Init /\ [][Next]_vars

(* ---------------- request threads ---------------- *)
\* the Flask development server (server.py line 381, threaded by default)
\* runs every request in a thread of its own and nothing in ModelManager or
\* InferenceEngine takes a lock: two manager operations may be in flight
\* the request threads are checked on one device pair for each outcome of the
\* selection, with the weight detect_devices reports, on the networks of
\* one block or one child, larger than the threshold where that matters
ConcurrentPairs == { <<"cuda", "cpu">>, <<"mps", "cpu">>, <<"cpu", "cpu">> }
ConcurrentArchitectures ==
  { a \in Architectures : a.n = 1 /\ (a.kind = "plain" => a.attn) }

InitConcurrent ==
  /\ device_config \in
       { [main_device |-> p[1], secondary_device |-> p[2], main_weight |-> 85] :
           p \in ConcurrentPairs }
  /\ net \in { x \in [arch : ConcurrentArchitectures,
                        param_count : ParamCounts(device_config),
                        eos_at : EosPositions] :
                   /\ x.eos_at = EosAt(x.arch)
                   /\ LargerThan8GB(estimate_model_size_gb(device_config,
                                                           x.param_count))
                        => device_config.main_device = "cuda" }
  /\ model = NoObject
  /\ tokenizer = NoObject
  /\ pipeline_stages = NoStages
  /\ is_sharded = FALSE
  /\ inference_engine = NoObject
  /\ placement = [g \in ModelObjects |-> << >>]
  /\ ld = IdleLoad
  /\ calls = [c \in Callers |-> IdleCall]
  /\ limit = [calls |-> NumCallers, overlap |-> FALSE]
  /\ first_strategy = None

SpecConcurrent == InitConcurrent /\ [][Next]_vars

(***************************************************************************)
(* The claims                                                              *)
(***************************************************************************)
\* the estimate of the network on disk, in 1/1024 GB
EstimatedSize == estimate_model_size_gb(device_config, net.param_count)
GB(n) == n * MiPerGi

\* ceil(n * w) by its defining property: the least k with k >= n * w
CeilOf(n, pct) ==
  CHOOSE k \in 0..(n + 1) : 100 * k >= n * pct /\ 100 * (k - 1) < n * pct

\* a strategy has been selected by the load in progress or the last one
Selected == ld.strategy # None
\* apply() of the named strategy has returned and its results are not yet stored
Applied(name) == ld.pc = "store" /\ ld.strategy = name
\* the last load_model call has returned res
LoadReturned(res) == ld.pc = "done" /\ ld.result = res

\* the decision table of the specification, 'accelerator' being any of
\* cuda, npu, hip, mps
DecisionTable(cfg, size) ==
  IF IsAccelerator(cfg.main_device) /\ size > GB(8) THEN "model_parallelism"
  ELSE IF IsAccelerator(cfg.main_device) /\ ~IsAccelerator(cfg.secondary_device)
       THEN "layer_offloading"
       ELSE "pipeline_parallelism"

\* C1: the strategy selected is the one of the three-row decision table, for
\* every primary kind, secondary kind and estimate, every accelerator kind
\* counting as an accelerator.  The code tests main_device == 'cuda' only.
C1_DecisionTable ==
  Selected => ld.strategy = DecisionTable(device_config, EstimatedSize)

\* C2: with an accelerator as primary, a different accelerator as secondary
\* and an estimate of 12 GB, a load that returns True has selected
\* ModelParallel and leaves is_sharded = True and no stage map.
C2_EndToEnd ==
  ( /\ LoadReturned(True)
    /\ IsAccelerator(primary_device) /\ IsAccelerator(secondary_device)
    /\ primary_device # secondary_device
    /\ EstimatedSize = GB(12) )
  => ( /\ ld.strategy = "model_parallelism"
       /\ is_sharded = TRUE
       /\ pipeline_stages = NoStages )

\* C3: selection is total and deterministic: every selection returns one of
\* the three strategies and never raises, and every later selection of the
\* same manager (same device profiles, same estimate), whatever the manager
\* has stored in between, returns the strategy the first one returned.
C3_SelectionTotal ==
  /\ first_strategy # None => first_strategy \in StrategyNames
  /\ ld.pc \in StrategyNames \cup {"store"} => ld.strategy \in StrategyNames
  /\ Selected => ld.strategy = first_strategy

\* a reload has selected its strategy while the engine of an earlier load exists
C3_Witness ==
  /\ ld.pc = "store"
  /\ inference_engine # NoObject
  /\ ld.strategy = first_strategy
  /\ is_sharded \/ pipeline_stages # NoStages

\* C4: ModelParallel targets child i (counted from 0) at the primary device
\* when i < ceil(n * w) and at the secondary device otherwise, every child
\* once, in natural order, at one device.
C4_ModelParallelTargets ==
  ld.strategy = "model_parallelism" =>
    LET n == Len(Children(arch))
        split_index == CeilOf(n, device_config.main_weight)
    IN /\ Len(ld.targets) <= n
       /\ \A j \in 1..Len(ld.targets) :
            /\ ld.targets[j].child = j
            /\ ld.targets[j].device =
                 IF j - 1 < split_index THEN primary_device ELSE secondary_device
       /\ Applied("model_parallelism") => Len(ld.targets) = n

\* apply() has returned with children targeted at both devices
C4_Witness ==
  /\ Applied("model_parallelism")
  /\ Len(ld.targets) = MaxChildren
  /\ ld.targets[1].device = primary_device
  /\ ld.targets[MaxChildren].device = secondary_device
  /\ primary_device # secondary_device

\* C5: ModelParallel is best-effort: whichever relocations raise, every child
\* is attempted once, in order, a child that was moved stays where it was
\* put, and apply() returns True with is_sharded = True and no stage map,
\* which is what the manager stores.
C5_ModelParallelBestEffort ==
  /\ Applied("model_parallelism") =>
       /\ Len(ld.targets) = Len(Children(arch))
       /\ \A j \in 1..Len(ld.targets) :
            /\ ld.targets[j].child = j
            /\ ld.targets[j].moved =>
                 AllOn(placement[model], Children(arch)[j], ld.targets[j].device)
       /\ ld.s_is_sharded = TRUE
       /\ ld.s_stages = NoStages
       /\ ld.success = True
  /\ (ld.strategy = "model_parallelism" /\ ld.pc = "engine") =>
       (is_sharded = TRUE /\ pipeline_stages = NoStages)
  /\ (ld.strategy = "model_parallelism" /\ ld.pc = "done") =>
       (ld.result = True /\ is_sharded = TRUE /\ pipeline_stages = NoStages)

\* apply() has returned although the relocation of every child raised
C5_Witness ==
  /\ Applied("model_parallelism")
  /\ Len(ld.targets) >= 2
  /\ \A j \in 1..Len(ld.targets) : ~ld.targets[j].moved
  /\ ld.s_is_sharded

\* the network has everything the stage construction reads:
\* model.transformer with h, wte, wpe and ln_f
HasDecoderStructure(a) == HasTransformer(a) /\ HasWteWpe(a)

C7_PipelineDegrades ==
  (ld.strategy = "pipeline_parallelism" /\ ~HasDecoderStructure(arch)) =>
    /\ ld.s_stages = NoStages
    /\ pipeline_stages = NoStages
    /\ Applied("pipeline_parallelism") =>
         /\ ld.success = False
         /\ AllOn(placement[model], Leaves(arch), primary_device)
    /\ LoadReturned(False) => ld.reloc_failed
    /\ LoadReturned(True) => inference_engine = model
    /\ \A c \in Callers :
         /\ calls[c].stages = NoStages
         /\ calls[c].path \in {None, "native"}

\* a load of a network with no transformer attribute has returned True
C7_Witness ==
  /\ LoadReturned(True)
  /\ ld.strategy = "pipeline_parallelism"
  /\ arch.kind = "plain" /\ arch.n >= 1
  /\ ~ld.reloc_failed
  /\ inference_engine = model
  /\ AllOn(placement[model], Leaves(arch), primary_device)
  /\ primary_device # "cpu"

\* C8: when LayerOffload has moved no sub-module back to the primary device
\* it ends with the entire model on the primary device.  The code returns
\* offload_count > 0 and leaves the model on the secondary device.
C8_OffloadFallback ==
  (Applied("layer_offloading") /\ ld.offload_count = 0) =>
    AllOn(placement[model], Leaves(arch), primary_device)

\* C9: the decode loop makes at most max_length passes, never starts a pass
\* on a sequence of max_length tokens, and the sequence it returns ends with
\* the end-of-sequence token or has exactly max_length tokens.
C9_LoopTerminates ==
  \A c \in Callers :
    LET call == calls[c]
    IN /\ call.steps <= max_length
       /\ call.pc \in {"embeddings", "early_layers", "transfer", "late_layers",
                       "output_head", "select"} =>
            /\ Len(call.current_ids) < max_length
            /\ Len(call.current_ids) = Len(call.input_ids) + call.steps
       /\ (call.pc = "decode" /\ call.path = "pipeline") =>
            /\ call.failed_at = None
            /\ Len(call.output) = Len(call.input_ids) + call.steps
            /\ \/ Len(call.output) = max_length
               \/ /\ Len(call.output) >= 1
                  /\ call.output[Len(call.output)] = eos_token_id

\* the loop has returned after max_length passes on an empty input
C9_Witness ==
  \E c \in Callers :
    /\ calls[c].pc = "decode" /\ calls[c].path = "pipeline"
    /\ calls[c].steps = max_length
    /\ calls[c].output[max_length] # eos_token_id

\* C10: a call whose cross-device transfer raised moves the whole model to
\* the primary device, then hands the original input ids to model.generate,
\* and when that returns the call returns text and raises nothing.
C10_TransferFallback ==
  \A c \in Callers :
    LET call == calls[c]
    IN /\ call.failed_at = "transfer" =>
            /\ call.pc \in {"fallback", "fallback_generate", "decode", "done"}
            /\ call.pc = "fallback_generate" =>
                 /\ call.relocated
                 /\ AllOn(placement[call.engine], Leaves(arch), primary_device)
            /\ call.pc = "decode" =>
                 /\ call.path = "fallback"
                 /\ call.relocated
                 /\ call.native_input = call.input_ids
                 /\ IsPrefix(call.input_ids, call.output)
                 /\ AllOn(placement[call.engine], Leaves(arch), primary_device)
       /\ (call.pc = "done" /\ call.path = "fallback") => call.result = "text"

\* the transfer raised in the second pass and the fallback has generated
C10_Witness ==
  \E c \in Callers :
    /\ calls[c].pc = "decode"
    /\ calls[c].failed_at = "transfer"
    /\ calls[c].steps >= 1
    /\ calls[c].path = "fallback"
    /\ calls[c].current_ids # calls[c].input_ids

\* the call is between entering _pipeline_generate and leaving it, the except
\* clause with its whole-model relocation and native generation included
InDecodeWindow(c) ==
  calls[c].pc \in {"pipeline", "loop", "embeddings", "early_layers", "transfer",
                   "late_layers", "output_head", "select",
                   "fallback", "fallback_generate"}
\* the call reads or relocates the tensors of its engine's model
UsesModel(c) == InDecodeWindow(c) \/ calls[c].pc = "native"

\* C11: while a call is inside the decode loop or its fallback, no other call
\* on the same loaded model reads or relocates the model's tensors.  Nothing
\* in the code serialises the calls of two request threads.
C11_NoOverlap ==
  \A c, d \in Callers :
    (c # d /\ calls[c].engine = calls[d].engine /\ InDecodeWindow(c))
      => ~UsesModel(d)

\* C12: as long as no load has constructed an inference engine (nothing was
\* loaded, or every load failed) a generate call ends at once with the
\* not-loaded error: it never reaches the tokenizer, the decode loop, native
\* generation or the fallback, and it is over after the one attempt.
C12_NotLoaded ==
  /\ (model = NoObject \/ tokenizer = NoObject) => inference_engine = NoObject
  /\ inference_engine = NoObject =>
       \A c \in Callers :
         /\ calls[c].pc \in {"idle", "done"}
         /\ calls[c].pc = "done" =>
              (calls[c].result = "not_loaded" /\ calls[c].path = None)
  /\ \A c \in Callers :
       calls[c].result = "not_loaded" =>
         (calls[c].pc = "done" /\ calls[c].path = None)

\* a call has failed with the not-loaded error after a load that failed
\* once the loader had returned the model and the tokenizer
C12_Witness ==
  /\ model # NoObject
  /\ inference_engine = NoObject
  /\ calls[1].pc = "done"
  /\ calls[1].result = "not_loaded"

\* the except clause of _pipeline_generate has been entered by the call
FallbackEntered(call) == call.failed_at # None

\* C13: one fallback level: a call enters the decode loop at most once and
\* invokes native generation at most once; native generation follows a
\* decode loop only through the except clause, after the relocation; and a
\* call whose fallback relocation or fallback generation raised ends with
\* that error, having attempted nothing more.
C13_OneFallbackLevel ==
  \A c \in Callers :
    LET call == calls[c]
    IN /\ call.loop_entries <= 1
       /\ call.native_calls <= 1
       /\ call.pc = "native" => (call.loop_entries = 0 /\ call.native_calls = 0)
       /\ call.pc \in {"fallback", "fallback_generate"} =>
            (call.loop_entries = 1 /\ call.native_calls = 0 /\ FallbackEntered(call))
       /\ (call.loop_entries = 1 /\ call.native_calls = 1) =>
            (FallbackEntered(call) /\ call.relocated)
       /\ (call.pc = "done" /\ FallbackEntered(call)) =>
            /\ call.loop_entries = 1
            /\ \/ /\ call.result = "text" /\ call.path = "fallback"
                  /\ call.relocated /\ call.native_calls = 1
               \/ /\ call.result = "error" /\ call.path = None
                  /\ ~call.relocated => call.native_calls = 0
       /\ (call.pc = "done" /\ call.result = "error") => call.path = None

\* the fallback's native generation raised and the call ended with the error
C13_Witness ==
  \E c \in Callers :
    /\ calls[c].pc = "done"
    /\ calls[c].result = "error"
    /\ FallbackEntered(calls[c])
    /\ calls[c].relocated
    /\ calls[c].native_calls = 1
    /\ calls[c].loop_entries = 1

\* C14: with a stage map, a call ends with an error only when the fallback
\* was run and itself failed: a tokenization failure, too, leads to the
\* fallback.  The tokenizer is called outside the try of _pipeline_generate.
C14_FailuresCaught ==
  \A c \in Callers :
    (calls[c].pc = "done" /\ calls[c].result = "error"
       /\ pipeline_stages # NoStages)
      => FallbackEntered(calls[c])

\* the modules of the stage map are where PipelineParallel put them
StagesInPlace(pl, st) ==
  /\ AllOn(pl, StageLeaves(st, "early_layers"), primary_device)
  /\ AllOn(pl, StageLeaves(st, "late_layers"), secondary_device)
  /\ AllOn(pl, st.output_head, secondary_device)

\* C15: while a model loaded with a stage map stays loaded, whatever generate
\* calls have run, succeeded, fallen back or failed, early_layers is on the
\* primary device and late_layers and output_head are on the secondary
\* device.  The except clause of _pipeline_generate moves the whole model to
\* the main device and leaves the stage map in place.
C15_StagePlacement ==
  (~LoadInFlight /\ inference_engine # NoObject /\ pipeline_stages # NoStages)
    => StagesInPlace(placement[inference_engine], pipeline_stages)

\* a text with no whitespace at either end
Trimmed(text) ==
  text = << >> \/ (text[1] \notin Whitespace /\ text[Len(text)] \notin Whitespace)
\* inner is outer without some whitespace at its two ends
TrimOf(inner, outer) ==
  /\ Trimmed(inner)
  /\ \E i \in 1..(Len(outer) + 1) :
       /\ i + Len(inner) - 1 <= Len(outer)
       /\ \A k \in 1..Len(inner) : outer[i + k - 1] = inner[k]
       /\ \A j \in 1..Len(outer) :
            (j < i \/ j > i + Len(inner) - 1) => outer[j] \in Whitespace
\* the marker starts at place i of the text and nowhere before
FirstMarkerAt(text, i) ==
  /\ i \in 1..Len(text)
  /\ i + Len(Marker) - 1 <= Len(text)
  /\ \A k \in 1..Len(Marker) : text[i + k - 1] = Marker[k]
  /\ \A j \in 1..(i - 1) :
       ~(j + Len(Marker) - 1 <= Len(text)
           /\ \A k \in 1..Len(Marker) : text[j + k - 1] = Marker[k])
HasMarker(text) == \E i \in 1..Len(text) : FirstMarkerAt(text, i)

\* C16: whichever path produced the output ids, the text a call returns is
\* the decoded text after the first occurrence of the marker, trimmed, and
\* the whole decoded text, trimmed, when the marker does not occur.
C16_ResponseExtraction ==
  \A c \in Callers :
    LET call == calls[c]
        text == call.generated_text
    IN (call.pc = "done" /\ call.result = "text") =>
         /\ call.path \in {"native", "pipeline", "fallback"}
         /\ ~HasMarker(text) => TrimOf(call.response_text, text)
         /\ \A i \in 1..Len(text) :
              FirstMarkerAt(text, i) =>
                TrimOf(call.response_text,
                       SubSeq(text, i + Len(Marker), Len(text)))

\* a fallback call has returned the part after the first of two markers,
\* which had whitespace to trim
C16_Witness ==
  \E c \in Callers :
    /\ calls[c].pc = "done" /\ calls[c].result = "text"
    /\ calls[c].path = "fallback"
    /\ Cardinality(Occurrences(calls[c].generated_text)) >= 2
    /\ HasMarker(calls[c].response_text)
    /\ Len(calls[c].response_text) + Len(Marker)
         < Len(calls[c].generated_text)
             - Least(Occurrences(calls[c].generated_text)) + 1

\* C17: a load whose loader raised returns False to its caller, having
\* called the loader once, applied no strategy and constructed no engine;
\* no load calls the loader twice.
C17_LoadErrors ==
  /\ ld.loader_calls <= 1
  /\ LoadInFlight => ld.loader_calls = 1
  /\ ld.loader_raised =>
       /\ LoadReturned(False)
       /\ ld.loader_calls = 1
       /\ ld.strategy = None
       /\ ld.applies = 0
       /\ ld.engines = 0
       /\ model = NoObject => inference_engine = NoObject
  /\ ld.engines = 1 => LoadReturned(True)

\* the loader raised in a reload and the earlier engine is the one in place
C17_Witness ==
  /\ ld.loader_raised
  /\ LoadReturned(False)
  /\ inference_engine # NoObject
  /\ inference_engine = model

\* the stages of one pass of the loop, in the order of the specification:
\* Embedding, EarlyLayers, CrossDeviceTransfer, LateLayers, OutputProjection,
\* TokenSelection
StageSequence ==
  << "embeddings", "early_layers", "transfer", "late_layers", "output_head",
     "select" >>

\* C18: every pass of the decode loop runs the six stages in their order,
\* none skipped or repeated: a call about to run stage k has run exactly
\* the stages before k in this pass, and a pass that is over has run all six;
\* one transfer is made for each token generated; and the embedding stage of
\* every pass is given the whole current sequence, prompt and generated
\* tokens together.
C18_StageOrder ==
  \A c \in Callers :
    LET call == calls[c]
    IN /\ \A k \in 1..Len(StageSequence) :
            call.pc = StageSequence[k] =>
              /\ call.stage_log = SubSeq(StageSequence, 1, k - 1)
              /\ call.transfers = call.steps + (IF k > 3 THEN 1 ELSE 0)
              /\ k > 1 =>
                   /\ call.embedded = call.current_ids
                   /\ Len(call.embedded) = Len(call.input_ids) + call.steps
                   /\ IsPrefix(call.input_ids, call.embedded)
       /\ (call.pc = "loop"
             \/ (call.pc = "decode" /\ call.path = "pipeline" /\ call.steps > 0)) =>
            /\ call.stage_log = StageSequence
            /\ call.transfers = call.steps
            /\ Len(call.current_ids) = Len(call.embedded) + 1

\* the second pass of a loop is about to select its token: it has made its
\* second transfer on a sequence of the prompt and one generated token
C18_Witness ==
  \E c \in Callers :
    /\ calls[c].pc = "select"
    /\ calls[c].steps = 1
    /\ calls[c].transfers = 2
    /\ Len(calls[c].input_ids) = 1
    /\ Len(calls[c].embedded) = 2

\* the sequence greedy decoding makes of a sequence: the arg-max token is
\* appended until the end-of-sequence token or max_length tokens
RECURSIVE GreedySequence(_)
GreedySequence(ids) ==
  IF Len(ids) >= max_length THEN ids
  ELSE LET ext == Append(ids, ArgMaxToken(ids))
       IN IF ArgMaxToken(ids) = eos_token_id THEN ext ELSE GreedySequence(ext)

\* C19: the sequence a decode loop returns when no stage failed is a function
\* of its input ids and the weights, the one greedy arg-max decoding gives:
\* two runs on the same input return the same sequence.  Such a call has
\* made no sampling call; the sampling model.generate is what the
\* non-pipelined and the fallback path run, once.
C19_GreedyDeterministic ==
  \A c \in Callers :
    LET call == calls[c]
    IN /\ (call.pc = "decode" /\ call.path = "pipeline") =>
            /\ call.output = GreedySequence(call.input_ids)
            /\ call.native_calls = 0
       /\ (call.pc = "loop" \/ call.pc \in {StageSequence[k] : k \in 1..Len(StageSequence)}) =>
            /\ IsPrefix(call.current_ids, GreedySequence(call.input_ids))
            /\ call.native_calls = 0
       /\ (call.pc = "decode" /\ call.path \in {"native", "fallback"}) =>
            (call.native_calls = 1 /\ call.output \in NativeOutputs(call.input_ids))

\* a loop has returned a prompt token followed by two generated tokens
C19_Witness ==
  \E c \in Callers :
    /\ calls[c].pc = "decode" /\ calls[c].path = "pipeline"
    /\ Len(calls[c].input_ids) = 1
    /\ calls[c].steps = 2
    /\ calls[c].output = GreedySequence(calls[c].input_ids)

\* C20: when PipelineParallel has produced a stage map, model.lm_head, which
\* the loop applies to the output of the output_head stage, is on the
\* secondary device, where output_head is.  The strategy never relocates
\* lm_head: it stays where the loader left it.
C20_OutputProjection ==
  (Applied("pipeline_parallelism") /\ ld.s_stages # NoStages) =>
    /\ AllOn(placement[model], ld.s_stages.output_head, secondary_device)
    /\ AllOn(placement[model], LeafLmHead(arch), secondary_device)

\* the upper-case form of the letters the attention patterns are made of
UpperChar(ch) ==
  CASE ch = "a" -> "A" [] ch = "t" -> "T" [] ch = "n" -> "N" [] ch = "e" -> "E"
    [] ch = "i" -> "I" [] ch = "o" -> "O" [] ch = "s" -> "S" [] ch = "l" -> "L"
    [] ch = "f" -> "F" [] OTHER -> ch
\* the name contains 'attn', 'attention' or 'self', in any mix of cases
NamesAttention(name) ==
  \E part \in AttentionParts :
    \E k \in 0..(Len(name) - Len(part)) :
      \A j \in 1..Len(part) : name[k + j] \in {part[j], UpperChar(part[j])}
\* the leaves LayerOffload is to keep on the primary device: those of the
\* sub-modules so named, the input embedding and the output head
CriticalLeaves(a) ==
  UNION { NamedModules(a)[j].leaves :
            j \in { x \in 1..Len(NamedModules(a)) :
                      NamesAttention(NamedModules(a)[x].name) } }
    \cup (IF HasInputEmbeddings(a) THEN LeafWte ELSE {})
    \cup (IF HasOutputEmbeddings(a) THEN LeafLmHead(a) ELSE {})

\* C21: LayerOffload none of whose relocations raised: the whole model is on
\* the secondary device before the first module is moved back, no module
\* the loop has not reached yet has left it, and when apply() returns a
\* parameter is on the primary device exactly if it belongs to a sub-module
\* whose name contains 'attn', 'attention' or 'self' in any case, to the
\* input embedding or to the output head, and on the secondary device
\* otherwise; is_sharded is False and there is no stage map.
C21_OffloadPlacement ==
  (ld.strategy = "layer_offloading" /\ LoadInFlight /\ ~ld.reloc_failed) =>
    LET pl == placement[model]
    IN /\ (ld.pc = "lo_loop" /\ ld.i = 1) =>
            AllOn(pl, Leaves(arch), secondary_device)
       /\ ld.pc = "lo_loop" =>
            \A l \in Leaves(arch) :
              pl[l] = primary_device =>
                \E j \in 1..(ld.i - 1) :
                  /\ j <= Len(NamedModules(arch))
                  /\ l \in NamedModules(arch)[j].leaves
                  /\ NamesAttention(NamedModules(arch)[j].name)
       /\ ld.pc = "store" =>
            /\ \A l \in Leaves(arch) :
                 pl[l] = IF l \in CriticalLeaves(arch) THEN primary_device
                         ELSE secondary_device
            /\ ld.s_is_sharded = FALSE
            /\ ld.s_stages = NoStages
       /\ ld.pc = "engine" => (is_sharded = FALSE /\ pipeline_stages = NoStages)

\* apply() has returned on a network whose attention modules carry an
\* upper-case name, leaving parameters on both devices
C21_Witness ==
  /\ Applied("layer_offloading")
  /\ ~ld.reloc_failed
  /\ arch.kind = "bloom"
  /\ \E l \in Leaves(arch) : placement[model][l] = primary_device
  /\ \E l \in Leaves(arch) : placement[model][l] = secondary_device
  /\ ld.offload_count >= 3

\* the strategy has given up the layout it was building: it is in, or has
\* been through, the except clause that moves the whole model to primary
LayoutAbandoned ==
  \/ ld.pc \in {"pp_except", "lo_except"}
  \/ /\ ld.pc = "store"
     /\ ld.strategy \in {"pipeline_parallelism", "layer_offloading"}
     /\ ld.reloc_failed
     /\ ld.success = False
     /\ ld.s_stages = NoStages
     /\ AllOn(placement[model], Leaves(arch), primary_device)

\* C22: in each of the three strategies a sub-module whose relocation raises
\* is skipped: the strategy goes on with the remaining sub-modules and keeps
\* the layout it was building.  ModelParallel and the loop of LayerOffload do
\* so; a stage of PipelineParallel or the embedding or head of LayerOffload
\* that cannot be moved ends the strategy in its except clause, which moves
\* the whole model to the primary device.
C22_RelocationSkipped ==
  /\ (ld.strategy = "model_parallelism" /\ ld.reloc_failed /\ LoadInFlight) =>
       ld.pc \in {"model_parallelism", "store", "engine", "done"}
  /\ (ld.strategy = "pipeline_parallelism" /\ HasTransformer(arch)
        /\ HasWteWpe(arch) /\ ld.reloc_failed) => ~LayoutAbandoned
  /\ (ld.strategy = "layer_offloading" /\ ld.reloc_failed
        /\ ld.i > Len(NamedModules(arch))) => ~LayoutAbandoned

\* C23: a load_model call that returns True has called apply() of exactly
\* one strategy exactly once, and the manager's is_sharded and stage map are
\* what that call left on the strategy, whatever the device configuration.
\* With main_device equal to secondary_device, load_model moves the model
\* itself and never calls _apply_distribution_strategy.
C23_OneApplyPerLoad ==
  /\ LoadReturned(True) => (ld.applies = 1 /\ ld.strategy \in StrategyNames)
  /\ ld.pc = "engine" =>
       (is_sharded = ld.s_is_sharded /\ pipeline_stages = ld.s_stages)

\* C24: once a load_model call is over, whether it returned True or False,
\* the manager's model and its inference engine (which holds the model and
\* the stage map it was constructed with) come from the same load: no engine
\* of an earlier load is in use next to the model of a later one.  A reload
\* that fails after the loader has returned leaves the new model in
\* self.model and the engine, stage map and flag of the earlier load.
C24_ReloadWholesale ==
  (ld.pc \in {"idle", "done"} /\ inference_engine # NoObject) =>
    model = inference_engine

(***************************************************************************)
(* One request thread and a caller of load_model that does not wait for    *)
(* it: neither method takes a lock or tests a flag of the other.           *)
(***************************************************************************)
InitReload ==
  /\ device_config \in
       { [main_device |-> p[1], secondary_device |-> p[2],
          main_weight |-> 85, secondary_weight |-> 15] :
           p \in ConcurrentPairs }
  /\ net \in { x \in [arch : ConcurrentArchitectures,
                        param_count : ParamCounts(device_config),
                        eos_at : EosPositions] :
                   /\ x.eos_at = EosAt(x.arch)
                   /\ LargerThan8GB(estimate_model_size_gb(device_config,
                                                           x.param_count))
                        => device_config.main_device = "cuda"
                   /\ x.arch.kind = "gpt2" \/ device_config.main_device = "mps" }
  /\ model = NoObject
  /\ tokenizer = NoObject
  /\ pipeline_stages = NoStages
  /\ is_sharded = FALSE
  /\ inference_engine = NoObject
  /\ placement = [g \in ModelObjects |-> << >>]
  /\ ld = IdleLoad
  /\ calls = [c \in Callers |-> IdleCall]
  /\ limit = [calls |-> 1, overlap |-> TRUE]
  /\ first_strategy = None

SpecReload == InitReload /\ [][Next]_vars

\* the load is between the loader's return and the return of
\* _apply_distribution_strategy (or of the single-device relocation)
InLoadWindow == ld.pc \notin {"idle", "engine", "done"}

\* C25: no generate call is inside the decode loop, native generation or
\* the fallback while a load_model call is between starting to load and
\* the end of strategy application, on the first load and on every reload.
\* During a first load there is no engine yet and generate_response returns
\* the not-loaded error; during a reload the engine of the earlier load
\* serves requests while load_model runs.
C25_LoadExcludesGeneration ==
  \A c \in Callers : UsesModel(c) => ~InLoadWindow

\* C26: when ModelParallel reports is_sharded = True for a model of two or
\* more top-level children with a primary weight below 1, at least one child
\* was targeted at the primary and at least one at the secondary device.
\* ceil(len(children) * 0.85) equals len(children) for up to six children,
\* and every child is then targeted at the primary device.
C26_ShardedMeansSplit ==
  (Applied("model_parallelism") /\ ld.s_is_sharded
     /\ Len(Children(arch)) >= 2 /\ device_config.main_weight < 100) =>
    /\ \E j \in 1..Len(ld.targets) : ld.targets[j].device = primary_device
    /\ \E j \in 1..Len(ld.targets) : ld.targets[j].device = secondary_device

\* the stage maps PipelineParallel may leave behind on this network: none,
\* or the one of all five stages
WholeStageMaps ==
  {NoStages} \cup (IF HasDecoderStructure(arch) THEN {StageModules} ELSE {})

\* the two outcomes of an apply() of PipelineParallel that returns
PipelineOutcomes ==
  \/ /\ ld.s_stages = StageModules
     /\ HasDecoderStructure(arch)
     /\ DOMAIN ld.s_stages = {StageOrder[j] : j \in 1..Len(StageOrder)}
     /\ ld.success = True
  \/ /\ ld.s_stages = NoStages
     /\ ld.success = False
     /\ AllOn(placement[model], Leaves(arch), primary_device)

\* C27 as stated: whichever relocation fails while the stages are built,
\* apply() of PipelineParallel ends in one of exactly two outcomes, the
\* stage map of all five stages or no stage map with the whole model on the
\* primary device.  The relocation in the except clause is unguarded: when
\* it raises too, apply() ends by raising and load_model returns False.
C27_TwoOutcomes ==
  /\ Applied("pipeline_parallelism") => PipelineOutcomes
  /\ (ld.pc = "done" /\ ld.strategy = "pipeline_parallelism"
        /\ HasDecoderStructure(arch)) => ~ld.raised

\* C27, amended: an apply() of PipelineParallel that returns has left the
\* stage map of all five stages, or no stage map and the whole model on the
\* primary device; it ends otherwise only by raising out of its except
\* clause, after a relocation has failed, and load_model then returns False.
\* Neither the strategy nor the manager ever holds a stage map of only some
\* of the stages.
C27_AllOrNothing ==
  /\ ld.s_stages \in WholeStageMaps
  /\ pipeline_stages \in WholeStageMaps
  /\ \A c \in Callers : calls[c].stages \in WholeStageMaps
  /\ Applied("pipeline_parallelism") => PipelineOutcomes
  /\ (ld.pc = "done" /\ ld.strategy = "pipeline_parallelism" /\ ld.raised) =>
       (ld.reloc_failed /\ ld.result = False)

\* the fourth or fifth stage could not be relocated, and apply() has
\* returned without a stage map and with the whole model on primary
C27_Witness ==
  /\ Applied("pipeline_parallelism")
  /\ HasDecoderStructure(arch)
  /\ ld.reloc_failed
  /\ ld.i >= 4
  /\ ld.s_stages = NoStages
  /\ ld.success = False
  /\ AllOn(placement[model], Leaves(arch), primary_device)

\* C28: a step of a generate call, whether the call goes through the decode
\* loop, falls back or fails, leaves the manager's model, tokenizer, stage
\* map, is_sharded flag and inference engine as they were; every call is
\* given the engine and stage map the manager holds when it starts, and a
\* call given a stage map goes to the pipelined decode loop first.  A request
\* that follows a fallback therefore finds the same stage map and enters the
\* loop again.
C28_GenerateKeepsManager ==
  [][ (calls' # calls) =>
        /\ UNCHANGED mgrVars
        /\ \A c \in Callers :
             /\ (calls[c].pc = "idle" /\ calls'[c].pc = "tokenize") =>
                  /\ calls'[c].stages = pipeline_stages
                  /\ calls'[c].engine = inference_engine
             /\ (calls[c].pc = "tokenize" /\ calls[c].stages # NoStages
                   /\ calls'[c].pc # "done") =>
                  (calls'[c].pc = "pipeline" /\ calls'[c].stages = calls[c].stages)
    ]_vars

\* a call is inside the decode loop, with the manager's stage map, on a model
\* that the fallback of an earlier call has moved to the primary device
C28_Witness ==
  \E c \in Callers :
    /\ calls[c].pc = "embeddings"
    /\ calls[c].loop_entries = 1
    /\ calls[c].stages # NoStages
    /\ calls[c].stages = pipeline_stages
    /\ calls[c].engine = inference_engine
    /\ primary_device # secondary_device
    /\ AllOn(placement[calls[c].engine], Leaves(arch), primary_device)

\* health_check line 16: what /api/health reports of the model
model_status == IF model # NoObject THEN "loaded" ELSE "not_loaded"

\* C29: with no load in flight, whenever /api/health reports "loaded" an
\* inference engine has been constructed by a load that returned True, and
\* no generate call ends with the not-loaded error.  The report tests
\* self.model, which load_model assigns before the strategy is applied and
\* the engine is constructed, and which a failing load does not reset.
C29_LoadedMeansServing ==
  (~LoadInFlight /\ model_status = "loaded") =>
    /\ inference_engine # NoObject
    /\ \A c \in Callers :
         calls[c].pc = "done" => calls[c].result # "not_loaded"

\* the positions of a call inside _pipeline_generate's try block
LoopPositions ==
  {"loop", "embeddings", "early_layers", "transfer", "late_layers",
   "output_head", "select"}

\* C30: at every point of the pipelined decode loop the running sequence
\* starts with the input ids, is longer than them by one token per completed
\* pass and never longer than max_length; an end-of-sequence token the loop
\* has appended is the last token and ends the loop; on an input of
\* max_length ids the loop makes no pass and returns the input ids.
C30_SequenceInvariant ==
  \A c \in Callers :
    LET call == calls[c]
        ids == call.current_ids
        inLoop == call.pc \in LoopPositions
        returned == call.pc = "decode" /\ call.path = "pipeline"
    IN (inLoop \/ returned) =>
         /\ IsPrefix(call.input_ids, ids)
         /\ Len(ids) = Len(call.input_ids) + call.steps
         /\ Len(ids) <= max_length
         /\ \A j \in (Len(call.input_ids) + 1)..(Len(ids) - 1) :
              ids[j] # eos_token_id
         /\ (inLoop /\ call.steps >= 1) => ids[Len(ids)] # eos_token_id
         /\ returned => call.output = ids
         /\ Len(call.input_ids) = max_length =>
              /\ call.steps = 0
              /\ call.pc \notin LoopPositions \ {"loop"}
              /\ ids = call.input_ids

\* the loop has appended tokens to a non-empty input and has returned on
\* the end-of-sequence token, short of max_length
C30_Witness ==
  \E c \in Callers :
    /\ calls[c].pc = "decode" /\ calls[c].path = "pipeline"
    /\ Len(calls[c].input_ids) >= 1
    /\ calls[c].steps >= 1
    /\ Len(calls[c].output) < max_length
    /\ calls[c].output[Len(calls[c].output)] = eos_token_id
    /\ IsPrefix(calls[c].input_ids, calls[c].output)

====
